---- MODULE Spec2Model ----
(***************************************************************************)
(* Model of dai_instance_transfer.py: the click command instance_transfer, *)
(* Config, InstanceService and CommandHandler.handle.                      *)
(*                                                                         *)
(* A behaviour is one call of one of the module's entry points:            *)
(*   "main"    the script is run (instance_transfer() at line 176),        *)
(*   "config"  Config(steam_url) is constructed with a str,                *)
(*   "handle"  CommandHandler.handle is called on a service whose Config   *)
(*             is already built (the mock-based use of section 8).         *)
(* The remote platform, the file system and the terminal are the           *)
(* environment: what they will answer is fixed in the initial state        *)
(* (failAt, lookup, answer, status, configExists, sections).               *)
(***************************************************************************)
EXTENDS Integers, Sequences, FiniteSets, TLC

VARIABLES entry, argv, pc, url, steam_url, configExists, sections,
          failAt, lookup, answer, status,
          tokenProvider, confirmed, instance, statusRead, owner,
          calls, exc, logs, exitCode

vars == <<entry, argv, pc, url, steam_url, configExists, sections,
          failAt, lookup, answer, status,
          tokenProvider, confirmed, instance, statusRead, owner,
          calls, exc, logs, exitCode>>

env == <<entry, argv, url, configExists, sections, failAt, lookup, answer, status>>

(* ---------------------------- bounds ---------------------------------- *)

MaxUrlLen == 2

MaxSections == 1

(* ---------------------------- values ---------------------------------- *)

Chars == {"h", "/"}

RECURSIVE SeqsUpTo(_)
SeqsUpTo(n) ==
    IF n = 0 THEN {<<>>}
    ELSE LET shorter == SeqsUpTo(n - 1)
         IN  shorter \cup {Append(s, c) : s \in {t \in shorter : Len(t) = n - 1}, c \in Chars}

Urls == SeqsUpTo(MaxUrlLen)

StrValue(s) == [kind |-> "str", chars |-> s]

\* what click.option(...) returns: a decorator function, not the option's value
OptionDecorator == [kind |-> "function", chars |-> <<>>]

NoValue == [kind |-> "none", chars |-> <<>>]

Entries == {"main", "config", "handle"}

Statuses == {"running", "stopped", "starting", "stopping", "failed"}

FailPoints == {"none", "token_provider", "access_token", "login", "get_instance",
               "set_owner_admin", "stop_running", "start", "connect",
               "transfer_entities", "stop", "set_owner_new"}

Lookups == {"found", "absent"}

TRANSFER_COMPLETE == "Transfer complete."

TRACEBACK == "traceback"

NotExited == -1

Call(op, arg, ok) == [op |-> op, arg |-> arg, ok |-> ok]

(* ------------------------- pure functions ----------------------------- *)

\* str.rstrip("/")
RECURSIVE rstrip(_)
rstrip(s) ==
    IF s = <<>> THEN s
    ELSE IF s[Len(s)] = "/" THEN rstrip(SubSeq(s, 1, Len(s) - 1))
    ELSE s

(* ------------------------------ Init ---------------------------------- *)

Init ==
    /\ entry \in Entries
    /\ pc = CASE entry = "main" -> "click_main"
              [] entry = "config" -> "config_init"
              [] entry = "handle" -> "login_create"
    /\ argv \in IF entry = "main" THEN {<<>>} \cup {<<u>> : u \in Urls} ELSE {<<>>}
    /\ url \in IF entry = "config" THEN {StrValue(u) : u \in Urls} ELSE {NoValue}
    /\ steam_url = IF entry = "handle" THEN StrValue(<<"h">>) ELSE NoValue
    /\ configExists \in IF entry = "handle" THEN {TRUE} ELSE BOOLEAN
    /\ sections \in IF entry = "handle" THEN {{<<"h">>}}
                    ELSE {S \in SUBSET Urls : Cardinality(S) <= MaxSections}
    /\ failAt \in IF entry = "config" THEN {"none"} ELSE FailPoints
    /\ lookup \in IF entry = "config" THEN {"found"} ELSE Lookups
    /\ answer \in IF entry = "config" THEN {TRUE} ELSE BOOLEAN
    /\ status \in IF entry = "config" THEN {"running"} ELSE Statuses
    /\ tokenProvider = "none"
    /\ confirmed = "unasked"
    /\ instance = FALSE
    /\ statusRead = "unread"
    /\ owner = "old_user_name"
    /\ calls = <<>>
    /\ exc = "none"
    /\ logs = <<>>
    /\ exitCode = NotExited

(* --------------------------- helpers ---------------------------------- *)

\* a statement raises: control leaves the function with the exception
Raise(e) ==
    /\ exc' = e
    /\ pc' = "raise"


\* variant: the failure of a remote call is swallowed and the run goes on
Remote_Swallow(op, arg, point, next) ==
    /\ calls' = Append(calls, Call(op, arg, failAt # point))
    /\ pc' = next
    /\ exc' = exc

\* a remote call that either returns (go to next) or raises
Remote(op, arg, point, next) ==
    /\ calls' = Append(calls, Call(op, arg, failAt # point))
    /\ IF failAt = point
       THEN Raise("RemoteError")
       ELSE /\ pc' = next
            /\ exc' = exc

(* ------------------------ instance_transfer --------------------------- *)

\* click.command: no option is registered on the command, so any option on
\* the command line is a usage error (exit code 2) and the body is not run
ClickMain ==
    /\ pc = "click_main"
    /\ IF argv # <<>>
       THEN /\ exitCode' = 2
            /\ pc' = "done"
       ELSE /\ pc' = "parse_options"
            /\ UNCHANGED exitCode
    /\ UNCHANGED <<env, steam_url, tokenProvider, confirmed, instance, statusRead,
                   owner, calls, exc, logs>>

\* options = parse_command_line_options(); Config(options['steam_url'])
ParseCommandLineOptions ==
    /\ pc = "parse_options"
    /\ url' = OptionDecorator
    /\ pc' = "config_init"
    /\ UNCHANGED <<entry, argv, configExists, sections, failAt, lookup, answer, status,
                   steam_url, tokenProvider, confirmed, instance, statusRead,
                   owner, calls, exc, logs, exitCode>>

\* Config.__init__: self.steam_url = steam_url.rstrip("/")
ConfigInit ==
    /\ pc = "config_init"
    /\ IF url.kind = "str"
       THEN /\ steam_url' = StrValue(rstrip(url.chars))
            /\ pc' = "load_config"
            /\ exc' = exc
       ELSE /\ Raise("AttributeError")
            /\ UNCHANGED steam_url
    /\ UNCHANGED <<env, tokenProvider, confirmed, instance, statusRead,
                   owner, calls, logs, exitCode>>

\* Config._load_config
LoadConfig ==
    /\ pc = "load_config"
    /\ IF ~configExists THEN Raise("ConfigException")
       ELSE IF steam_url.chars \notin sections THEN Raise("KeyError")
       ELSE /\ pc' = IF entry = "config" THEN "return" ELSE "login_create"
            /\ exc' = exc
    /\ UNCHANGED <<env, steam_url, tokenProvider, confirmed, instance, statusRead,
                   owner, calls, logs, exitCode>>

(* ------------------------ InstanceService.steam_login ----------------- *)

\* h2o_authn.TokenProvider(...) wrapped in closing(...)
LoginCreate ==
    /\ pc = "login_create"
    /\ IF failAt = "token_provider"
       THEN /\ Raise("RemoteError")
            /\ UNCHANGED tokenProvider
       ELSE /\ tokenProvider' = "open"
            /\ pc' = "login_token"
            /\ exc' = exc
    /\ UNCHANGED <<env, steam_url, confirmed, instance, statusRead,
                   owner, calls, logs, exitCode>>

\* access_token=token_provider()
LoginToken ==
    /\ pc = "login_token"
    /\ IF failAt = "access_token"
       THEN /\ exc' = "RemoteError"
            /\ pc' = "login_exit"
       ELSE /\ pc' = "login_call"
            /\ exc' = exc
    /\ UNCHANGED <<env, steam_url, tokenProvider, confirmed, instance, statusRead,
                   owner, calls, logs, exitCode>>

\* h2osteam.login(url=..., access_token=...)
LoginCall ==
    /\ pc = "login_call"
    /\ calls' = Append(calls, Call("login", "-", failAt # "login"))
    /\ exc' = IF failAt = "login" THEN "RemoteError" ELSE exc
    /\ pc' = "login_exit"
    /\ UNCHANGED <<env, steam_url, tokenProvider, confirmed, instance, statusRead,
                   owner, logs, exitCode>>


\* variant: the token provider is closed on the normal exit only
LoginExit_LeakOnError ==
    /\ pc = "login_exit"
    /\ tokenProvider' = IF exc = "none" THEN "closed" ELSE tokenProvider
    /\ pc' = IF exc = "none" THEN "confirm" ELSE "raise"
    /\ UNCHANGED <<env, steam_url, confirmed, instance, statusRead,
                   owner, calls, exc, logs, exitCode>>

\* variant: the context manager suppresses the pending exception
LoginExit_Suppress ==
    /\ pc = "login_exit"
    /\ tokenProvider' = "closed"
    /\ exc' = "none"
    /\ pc' = "confirm"
    /\ UNCHANGED <<env, steam_url, confirmed, instance, statusRead,
                   owner, calls, logs, exitCode>>

\* closing.__exit__: token_provider.close(), then the pending exception, if any
LoginExit ==
    /\ pc = "login_exit"
    /\ tokenProvider' = "closed"
    /\ pc' = IF exc = "none" THEN "confirm" ELSE "raise"
    /\ UNCHANGED <<env, steam_url, confirmed, instance, statusRead,
                   owner, calls, exc, logs, exitCode>>

(* ------------------------ CommandHandler.handle ----------------------- *)


\* variant: click.confirm without abort=True, the answer is ignored
Confirm_NoAbort ==
    /\ pc = "confirm"
    /\ confirmed' = IF answer THEN "yes" ELSE "no"
    /\ pc' = "get_instance"
    /\ UNCHANGED <<env, steam_url, tokenProvider, instance, statusRead,
                   owner, calls, exc, logs, exitCode>>

\* click.confirm(..., abort=True): a declined prompt raises click.Abort,
\* a RuntimeError
Confirm ==
    /\ pc = "confirm"
    /\ confirmed' = IF answer THEN "yes" ELSE "no"
    /\ IF answer
       THEN /\ pc' = "get_instance"
            /\ exc' = exc
       ELSE Raise("Abort")
    /\ UNCHANGED <<env, steam_url, tokenProvider, instance, statusRead,
                   owner, calls, logs, exitCode>>

\* InstanceService.get_instance(instance_name, old_user_name)
GetInstance ==
    /\ pc = "get_instance"
    /\ calls' = Append(calls, Call("get_instance", "old_user_name", failAt # "get_instance"))
    /\ IF failAt = "get_instance" THEN
            /\ Raise("RemoteError")
            /\ UNCHANGED instance
       ELSE IF lookup = "absent" THEN
            /\ Raise("InstanceNotFoundException")
            /\ UNCHANGED instance
       ELSE /\ instance' = TRUE
            /\ pc' = "set_owner_admin"
            /\ exc' = exc
    /\ UNCHANGED <<env, steam_url, tokenProvider, confirmed, statusRead,
                   owner, logs, exitCode>>

\* self.service.set_instance_owner(instance, admin_user_name)
SetOwnerAdmin ==
    /\ pc = "set_owner_admin"
    /\ Remote("set_owner", "admin_user_name", "set_owner_admin", "status")
    /\ owner' = IF failAt = "set_owner_admin" THEN owner ELSE "admin_user_name"
    /\ UNCHANGED <<env, steam_url, tokenProvider, confirmed, instance, statusRead,
                   logs, exitCode>>


\* variant: the instance is stopped whatever its status
ReadStatus_AlwaysStop ==
    /\ pc = "status"
    /\ statusRead' = status
    /\ pc' = "stop_running"
    /\ UNCHANGED <<env, steam_url, tokenProvider, confirmed, instance,
                   owner, calls, exc, logs, exitCode>>

\* if instance.status == "running":
ReadStatus ==
    /\ pc = "status"
    /\ statusRead' = status
    /\ pc' = IF status = "running" THEN "stop_running" ELSE "start"
    /\ UNCHANGED <<env, steam_url, tokenProvider, confirmed, instance,
                   owner, calls, exc, logs, exitCode>>

\* instance.stop() of line 124
StopRunning ==
    /\ pc = "stop_running"
    /\ Remote("stop", "-", "stop_running", "start")
    /\ UNCHANGED <<env, steam_url, tokenProvider, confirmed, instance, statusRead,
                   owner, logs, exitCode>>


\* variant: the instance is not started before the entity transfer
Start_Skipped ==
    /\ pc = "start"
    /\ pc' = "connect"
    /\ UNCHANGED <<env, steam_url, tokenProvider, confirmed, instance, statusRead,
                   owner, calls, exc, logs, exitCode>>

\* instance.start(resources)
Start ==
    /\ pc = "start"
    /\ Remote("start", "-", "start", "connect")
    /\ UNCHANGED <<env, steam_url, tokenProvider, confirmed, instance, statusRead,
                   owner, logs, exitCode>>

\* InstanceService.transfer_entities: instance.connect()._backend.admin
Connect ==
    /\ pc = "connect"
    /\ Remote("connect", "-", "connect", "transfer_entities")
    /\ UNCHANGED <<env, steam_url, tokenProvider, confirmed, instance, statusRead,
                   owner, logs, exitCode>>


\* variant: the owner is reassigned right after the transfer, without the stop
TransferEntities_NoStop ==
    /\ pc = "transfer_entities"
    /\ Remote("transfer_entities", "-", "transfer_entities", "set_owner_new")
    /\ UNCHANGED <<env, steam_url, tokenProvider, confirmed, instance, statusRead,
                   owner, logs, exitCode>>

\* InstanceService.transfer_entities: dai_admin.transfer_entities(old, new)
TransferEntities ==
    /\ pc = "transfer_entities"
    /\ Remote("transfer_entities", "-", "transfer_entities", "stop")
    /\ UNCHANGED <<env, steam_url, tokenProvider, confirmed, instance, statusRead,
                   owner, logs, exitCode>>

\* instance.stop() of line 128
Stop ==
    /\ pc = "stop"
    /\ Remote("stop", "-", "stop", "set_owner_new")
    /\ UNCHANGED <<env, steam_url, tokenProvider, confirmed, instance, statusRead,
                   owner, logs, exitCode>>


\* variant: the last owner assignment names old_user_name
SetOwnerNew_Old ==
    /\ pc = "set_owner_new"
    /\ Remote("set_owner", "old_user_name", "set_owner_new", "log_complete")
    /\ owner' = IF failAt = "set_owner_new" THEN owner ELSE "old_user_name"
    /\ UNCHANGED <<env, steam_url, tokenProvider, confirmed, instance, statusRead,
                   logs, exitCode>>

\* self.service.set_instance_owner(instance, new_user_name)
SetOwnerNew ==
    /\ pc = "set_owner_new"
    /\ Remote("set_owner", "new_user_name", "set_owner_new", "log_complete")
    /\ owner' = IF failAt = "set_owner_new" THEN owner ELSE "new_user_name"
    /\ UNCHANGED <<env, steam_url, tokenProvider, confirmed, instance, statusRead,
                   logs, exitCode>>

\* logger.info("Transfer complete.")
LogComplete ==
    /\ pc = "log_complete"
    /\ logs' = Append(logs, TRANSFER_COMPLETE)
    /\ pc' = "return"
    /\ UNCHANGED <<env, steam_url, tokenProvider, confirmed, instance, statusRead,
                   owner, calls, exc, exitCode>>

(* ----------------------- leaving the entry point ---------------------- *)

\* the entry point returns; under click the command then exits with code 0
Return ==
    /\ pc = "return"
    /\ exitCode' = IF entry = "main" THEN 0 ELSE exitCode
    /\ pc' = "done"
    /\ UNCHANGED <<env, steam_url, tokenProvider, confirmed, instance, statusRead,
                   owner, calls, exc, logs>>


\* variant: the handler logs the traceback and returns, without sys.exit(1)
ExceptHandler_NoExit ==
    /\ pc = "raise"
    /\ entry = "main"
    /\ logs' = Append(logs, TRACEBACK)
    /\ exitCode' = 0
    /\ pc' = "done"
    /\ UNCHANGED <<env, steam_url, tokenProvider, confirmed, instance, statusRead,
                   owner, calls, exc>>

\* except Exception: logger.error(traceback); sys.exit(1)
ExceptHandler ==
    /\ pc = "raise"
    /\ entry = "main"
    /\ logs' = Append(logs, TRACEBACK)
    /\ exitCode' = 1
    /\ pc' = "done"
    /\ UNCHANGED <<env, steam_url, tokenProvider, confirmed, instance, statusRead,
                   owner, calls, exc>>

\* Config(...) or handle(...) called directly: the exception reaches the caller
Propagate ==
    /\ pc = "raise"
    /\ entry # "main"
    /\ pc' = "done"
    /\ UNCHANGED <<env, steam_url, tokenProvider, confirmed, instance, statusRead,
                   owner, calls, exc, logs, exitCode>>

Next ==
    \/ ClickMain
    \/ ParseCommandLineOptions
    \/ ConfigInit
    \/ LoadConfig
    \/ LoginCreate
    \/ LoginToken
    \/ LoginCall
    \/ LoginExit
    \/ Confirm
    \/ GetInstance
    \/ SetOwnerAdmin
    \/ ReadStatus
    \/ StopRunning
    \/ Start
    \/ Connect
    \/ TransferEntities
    \/ Stop
    \/ SetOwnerNew
    \/ LogComplete
    \/ Return
    \/ ExceptHandler
    \/ Propagate

Spec == Init /\ [][Next]_vars

(* ===================== properties of the program ====================== *)

InstanceOps == {"set_owner", "stop", "start", "transfer_entities"}

LifecycleOps == {"stop", "start"}

IsInstanceCall(c) == c.op \in InstanceOps

\* the stop / start / transfer / owner calls issued so far, in order
InstanceCalls == SelectSeq(calls, IsInstanceCall)

OpArgs(s) == [i \in 1..Len(s) |-> <<s[i].op, s[i].arg>>]

OpsOf(s) == [i \in 1..Len(s) |-> s[i].op]

Indices(ops) == {i \in 1..Len(calls) : calls[i].op \in ops}

\* index of the last call before position i whose op is in ops, 0 if none
LastBefore(i, ops) ==
    LET S == {j \in Indices(ops) : j < i}
    IN  IF S = {} THEN 0 ELSE CHOOSE j \in S : \A k \in S : k <= j

Count(s, x) == Cardinality({i \in 1..Len(s) : s[i] = x})

InLogs(x) == \E i \in 1..Len(logs) : logs[i] = x

\* the command line names a Steam URL whose section is in h2oai.config
GivenUrlInConfig == argv # <<>> /\ rstrip(argv[1]) \in sections

\* C1: a run of the script with h2oai.config present and holding the section
\* of the given Steam URL, a yes at the prompt, the instance found and no
\* failing remote call ends with exit code 0 and "Transfer complete." logged,
\* without passing through the exception handler.
C1_ExitZeroOnSuccess ==
    ( /\ entry = "main"
      /\ pc = "done"
      /\ configExists
      /\ GivenUrlInConfig
      /\ failAt = "none"
      /\ lookup = "found"
      /\ answer )
    => /\ exitCode = 0
       /\ InLogs(TRANSFER_COMPLETE)
       /\ ~InLogs(TRACEBACK)

\* C2: in a run of the script every raised exception reaches the top-level
\* handler: the run ends with exit code 1 and exactly one logged traceback,
\* and a run that raised never has exit code 0 nor logs "Transfer complete.".
C2_ExceptionExitsOne ==
    (entry = "main" /\ exc # "none")
    => /\ exitCode # 0
       /\ ~InLogs(TRANSFER_COMPLETE)
       /\ pc \in {"login_exit", "raise", "done"}
       /\ pc = "done" => (exitCode = 1 /\ Count(logs, TRACEBACK) = 1)

C2_Witness ==
    /\ entry = "main"
    /\ pc = "done"
    /\ exc # "none"
    /\ exitCode = 1
    /\ logs = <<TRACEBACK>>

DocumentedOrder == <<"stop", "set_owner", "start", "transfer_entities", "set_owner">>

\* C3 as stated: after a confirmed prompt and no failing call, handle has
\* issued exactly stop, set owner, start, transfer entities, set owner.
C3_FiveCallsDocumentedOrder ==
    (pc = "done" /\ confirmed = "yes" /\ exc = "none")
    => OpsOf(InstanceCalls) = DocumentedOrder

CodeOrder(running) ==
    <<  <<"set_owner", "admin_user_name">> >>
    \o (IF running THEN << <<"stop", "-">> >> ELSE <<>>)
    \o << <<"start", "-">>, <<"transfer_entities", "-">>, <<"stop", "-">>,
          <<"set_owner", "new_user_name">> >>

\* C3 amended: after a confirmed prompt and no failing call, handle has issued
\* set owner (admin), stop (only when the status read was "running"), start,
\* transfer entities, stop, set owner (new) and no other instance call: five
\* calls for an instance that was not running, six for a running one.
C3_CallsInCodeOrder ==
    (pc = "done" /\ confirmed = "yes" /\ exc = "none")
    => /\ OpArgs(InstanceCalls) = CodeOrder(statusRead = "running")
       /\ Len(InstanceCalls) = IF statusRead = "running" THEN 6 ELSE 5

C3_Witness ==
    /\ pc = "done"
    /\ confirmed = "yes"
    /\ exc = "none"
    /\ statusRead = "stopped"
    /\ Len(InstanceCalls) = 5

\* C4 as stated: the instance is looked up before the prompt is shown, so a
\* prompt that has been shown is a prompt for a located instance.
C4_LocateBeforeConfirm ==
    confirmed # "unasked" => (instance /\ Indices({"get_instance"}) # {})

\* C4 amended: the order is parse config, authenticate, confirm, locate:
\* a remote call is made only with the Config built, get_instance is called
\* only after steam_login has returned successfully and the prompt has been
\* answered yes, and at the prompt no lookup has been made yet.
C4_LocateAfterConfirm ==
    /\ (calls # <<>> \/ tokenProvider # "none") => steam_url.kind = "str"
    /\ \A i \in Indices({"get_instance"}) :
          /\ confirmed = "yes"
          /\ tokenProvider = "closed"
          /\ \E j \in Indices({"login"}) : j < i /\ calls[j].ok
          /\ \A j \in Indices({"login"}) : calls[j].ok
    /\ pc = "confirm" => (~instance /\ Indices({"get_instance"}) = {})

C4_Witness ==
    /\ Indices({"get_instance"}) # {}
    /\ confirmed = "yes"
    /\ instance

\* C5: a set-owner, stop, start or transfer-entities call is issued only
\* after the prompt was answered yes; a run whose prompt was declined ends
\* with none of them issued.
C5_CallsGuardedByConfirm ==
    /\ InstanceCalls # <<>> => confirmed = "yes"
    /\ confirmed = "no" => (InstanceCalls = <<>> /\ pc \in {"raise", "done"})

C5_Witness ==
    /\ pc = "done"
    /\ confirmed = "no"
    /\ Indices({"login"}) # {}
    /\ InstanceCalls = <<>>

\* no call is issued and no owner is assigned once an exception is pending,
\* and only the last issued call can be a failed one
C6_NoCallAfterFailure ==
    /\ \A i \in 1..Len(calls) : ~calls[i].ok => i = Len(calls)
    /\ (\E i \in 1..Len(calls) : ~calls[i].ok) => exc # "none"
    /\ failAt \in {"token_provider", "access_token"} => calls = <<>>
    /\ (pc = "done" /\ exc # "none"
          /\ \E i \in Indices({"set_owner"}) : calls[i].arg = "admin_user_name" /\ calls[i].ok)
       => /\ owner = "admin_user_name"
          /\ \A i \in Indices({"set_owner"}) : calls[i].arg # "old_user_name"

\* C6: once a remote call has failed no further remote call is issued in the
\* run (no retry, no compensating call); a run that fails after the owner was
\* set to admin_user_name ends with admin_user_name as the last owner assigned.
C6_NoRetryNoRecovery ==
    /\ []C6_NoCallAfterFailure
    /\ [][exc # "none" => (calls' = calls /\ owner' = owner)]_vars

C6_Witness ==
    /\ pc = "done"
    /\ failAt = "transfer_entities"
    /\ exc = "RemoteError"
    /\ owner = "admin_user_name"
    /\ ~calls[Len(calls)].ok

LoginSteps == {"login_create", "login_token", "login_call", "login_exit"}

\* C7: the TokenProvider is open only inside steam_login: it is closed on
\* the normal and on the exceptional exit, before the prompt, the lookup and
\* every instance operation, and at the end of the run.
C7_TokenProviderClosed ==
    /\ tokenProvider = "open" => pc \in LoginSteps
    /\ (calls # <<>> /\ pc \notin LoginSteps) => tokenProvider = "closed"
    /\ (Indices(InstanceOps \cup {"get_instance"}) # {} \/ confirmed # "unasked")
          => tokenProvider = "closed"

C7_Witness ==
    /\ pc = "done"
    /\ failAt = "login"
    /\ exc = "RemoteError"
    /\ tokenProvider = "closed"

\* C8: transfer_entities is called only when the last owner assignment was a
\* successful one to admin_user_name and the last lifecycle call a successful
\* start; set-owner(new_user_name) is called only after transfer_entities and
\* the stop that follows it have both succeeded. Failing runs included.
C8_HandOverChain ==
    /\ \A i \in Indices({"transfer_entities"}) :
          LET o == LastBefore(i, {"set_owner"})
              l == LastBefore(i, LifecycleOps)
          IN  /\ o > 0 /\ calls[o].arg = "admin_user_name" /\ calls[o].ok
              /\ l > 0 /\ calls[l].op = "start" /\ calls[l].ok
              /\ owner = "admin_user_name" \/ i < Len(calls)
    /\ \A i \in Indices({"set_owner"}) :
          calls[i].arg = "new_user_name" =>
             LET l == LastBefore(i, LifecycleOps)
                 t == LastBefore(i, {"transfer_entities"})
             IN  /\ t > 0 /\ calls[t].ok
                 /\ l > t /\ calls[l].op = "stop" /\ calls[l].ok
                 /\ LastBefore(l, LifecycleOps) < t

C8_Witness ==
    /\ pc = "done"
    /\ failAt = "set_owner_new"
    /\ Indices({"transfer_entities"}) # {}
    /\ \E i \in Indices({"set_owner"}) : calls[i].arg = "new_user_name"

AfterStart == {"connect", "transfer_entities", "stop", "set_owner_new",
               "log_complete", "return", "done"}

\* C9: the stop before start is issued iff the status read after the owner
\* was set to admin_user_name is "running"; start is issued once whatever
\* the status, so for any other status it is issued with no stop before it.
C9_StopOnlyWhenRunning ==
    /\ Cardinality(Indices({"start"})) <= 1
    /\ \A i \in Indices({"start"}) :
          /\ statusRead # "unread"
          /\ LastBefore(i, {"set_owner"}) > 0
          /\ (LastBefore(i, {"stop"}) > 0) <=> (statusRead = "running")
    /\ (statusRead # "unread" /\ pc # "stop_running" /\ Indices({"start"}) = {})
          => ((Indices({"stop"}) # {}) <=> (statusRead = "running"))
    /\ (confirmed = "yes" /\ exc = "none" /\ pc \in AfterStart)
          => Cardinality(Indices({"start"})) = 1

C9_Witness ==
    /\ statusRead = "failed"
    /\ \E i \in Indices({"start"}) : LastBefore(i, {"stop"}) = 0

\* C10: when "Transfer complete." is logged the last lifecycle call was a
\* stop and the last owner assignment was to new_user_name, whether or not
\* the instance was running at the beginning.
C10_LeftStoppedWithNewOwner ==
    InLogs(TRANSFER_COMPLETE) =>
       LET n == Len(calls) + 1
           l == LastBefore(n, LifecycleOps)
           o == LastBefore(n, {"set_owner"})
       IN  /\ l > 0 /\ calls[l].op = "stop" /\ calls[l].ok
           /\ o > l /\ calls[o].arg = "new_user_name" /\ calls[o].ok
           /\ owner = "new_user_name"

C10_Witness ==
    /\ InLogs(TRANSFER_COMPLETE)
    /\ statusRead = "running"
    /\ pc = "done"

====
